---- MODULE Spec2Model ----
(***************************************************************************)
(* Model of DockerEventEmitter (src/src/index.ts): an EventEmitter that    *)
(* supervises one `docker events` subprocess, watches /var/run for the     *)
(* docker socket, decodes the subprocess's newline-delimited JSON output   *)
(* and republishes each record under '*', its Action and the '' fallback.  *)
(*                                                                         *)
(* Text is a sequence of tokens.  "{" and "}" are braces, "\n" the         *)
(* newline, "x" a character no JSON document can hold at that place, and   *)
(* every other token one `"Action":"<token>"` member.  The run-time        *)
(* library (EventEmitter, ChildProcess, JSON, fs.watch) is modelled by its *)
(* behaviour at the places the source calls it.  Spec is the whole         *)
(* emitter; the other specifications are the emitter in environments that  *)
(* exercise one component or one interplay of components each.             *)
(***************************************************************************)
EXTENDS Integers, Sequences, FiniteSets, TLC

\* ---------------------------------------------------------------- bounds
MaxSpawn == 2
MaxRecords == 2
MaxListeners == 2

\* ------------------------------------------------------------- constants
socketFile == "docker.sock"
pidFile == "dockerd.pid"
Unset == "undefined"

Wildcard == "*"
Fallback == ""
ErrorType == "error"

ActionNames == {"start", "die", Wildcard, ErrorType}
Patterns == {Wildcard, Fallback, "start", ErrorType}
Events == {"rename", "change"}
Filenames == {socketFile, pidFile, "other.pid"}

Procs == 1..MaxSpawn
NoCmd == 0

\* The records `docker events --format '{{json .}}'` can print, one per line.
Record(a) == IF a = "die" THEN <<"{", a, "{", "}", "}">> ELSE <<"{", a, "}">>
Records == {Record(a) : a \in ActionNames}
Malformed == <<"x">>
SpawnError == [error |-> "spawn"]

VARIABLES
  cmd,        \* #cmd: the tracked subprocess handle, NoCmd for null
  watcher,    \* number of fs.watch() watchers created (#watcher set iff > 0)
  data,       \* #data: the decoder buffer
  lastSeen,   \* #lastSeen
  events,     \* EventEmitter registry: pattern -> listeners in registration order
  throwers,   \* the registered listeners that raise when they are called
  killed,     \* ChildProcess.killed of every handle
  status,     \* every subprocess: "none", "running", "exited"; "failed" when it
              \* could not be started, "errored" once its 'error' event was handled
  signals,    \* number of termination signals delivered to every subprocess
  pending,    \* text every subprocess has written to stdout, not yet read
  sent,       \* records every subprocess has written (history)
  published,  \* payloads the decoder has published, in order (history)
  exitHooks,  \* number of process.on('exit') hooks registered
  host,       \* the host process: "running" or "exited"
  trace       \* what the last callback did, in order

vars == <<cmd, watcher, data, lastSeen, events, throwers, killed, status, signals,
          pending, sent, published, exitHooks, host, trace>>

State ==
  [cmd |-> cmd, watcher |-> watcher, data |-> data, lastSeen |-> lastSeen,
   events |-> events, throwers |-> throwers, killed |-> killed, status |-> status, signals |-> signals,
   pending |-> pending, sent |-> sent, published |-> published,
   exitHooks |-> exitHooks, host |-> host, trace |-> <<>>]

Becomes(s) ==
  /\ cmd' = s.cmd
  /\ watcher' = s.watcher
  /\ data' = s.data
  /\ lastSeen' = s.lastSeen
  /\ events' = s.events
  /\ throwers' = s.throwers
  /\ killed' = s.killed
  /\ status' = s.status
  /\ signals' = s.signals
  /\ pending' = s.pending
  /\ sent' = s.sent
  /\ published' = s.published
  /\ exitHooks' = s.exitHooks
  /\ host' = s.host
  /\ trace' = s.trace

Log(s, e) == [s EXCEPT !.trace = Append(@, e)]

Init ==
  /\ cmd = NoCmd
  /\ watcher = 0
  /\ data = <<>>
  /\ lastSeen = Unset
  /\ events = [p \in Patterns |-> <<>>]
  /\ throwers = {}
  /\ killed = [p \in Procs |-> FALSE]
  /\ status = [p \in Procs |-> "none"]
  /\ signals = [p \in Procs |-> 0]
  /\ pending = [p \in Procs |-> <<>>]
  /\ sent = [p \in Procs |-> <<>>]
  /\ published = <<>>
  /\ exitHooks = 0
  /\ host = "running"
  /\ trace = <<>>

\* ------------------------------------------------------------ trace entries
NoArg == [none |-> TRUE]
Ev(op, pat, id, arg) == [op |-> op, pat |-> pat, id |-> id, arg |-> arg]

\* ---------------------------------------------------------- EventEmitter
\* super.emit(type, arg): an 'error' event with no 'error' listener is thrown;
\* otherwise the listeners of `type` run in registration order and the result
\* says whether there was any.  A listener that raises ends the emit: the
\* listeners after it are not called and its exception leaves emit.
SuperEmit(s, type, arg) ==
  IF type = ErrorType /\ s.events[ErrorType] = <<>>
  THEN [s |-> Log(s, Ev("throw", type, 0, arg)), ret |-> FALSE, threw |-> TRUE]
  ELSE IF type \notin DOMAIN s.events \/ s.events[type] = <<>>
  THEN [s |-> s, ret |-> FALSE, threw |-> FALSE]
  ELSE
    LET ls == s.events[type]
        bad == {i \in 1..Len(ls) : ls[i] \in s.throwers}
        n == IF bad = {} THEN Len(ls) ELSE CHOOSE i \in bad : \A j \in bad : i <= j
        s1 == [s EXCEPT !.trace = @ \o [i \in 1..n |-> Ev("call", type, ls[i], arg)]]
    IN  IF bad = {}
        THEN [s |-> s1, ret |-> TRUE, threw |-> FALSE]
        ELSE [s |-> Log(s1, Ev("throw", type, ls[n], arg)), ret |-> FALSE, threw |-> TRUE]

\* emit() without the wildcard publish
emitNoWildcard(s, type, arg) ==
  LET b == SuperEmit(Log(s, Ev("emit", type, 0, arg)), type, arg)
  IN  IF b.threw \/ b.ret THEN b ELSE SuperEmit(b.s, Fallback, arg)

\* emit() that serves the type before the wildcard
emitTypedFirst(s, type, arg) ==
  LET b == SuperEmit(Log(s, Ev("emit", type, 0, arg)), type, arg)
      a == SuperEmit(b.s, Wildcard, arg)
  IN  IF b.threw THEN b
      ELSE IF b.ret THEN [a EXCEPT !.ret = TRUE]
      ELSE SuperEmit(a.s, Fallback, arg)

\* emit(type, ...args), index.ts:23-26
emit(s, type, arg) ==
  LET a == SuperEmit(Log(s, Ev("emit", type, 0, arg)), Wildcard, arg)
      b == SuperEmit(a.s, type, arg)
  IN  IF a.threw THEN a
      ELSE IF b.threw \/ b.ret THEN b
      ELSE SuperEmit(b.s, Fallback, arg)

\* ---------------------------------------------------------- ChildProcess
\* subprocess.kill(): the signal is delivered, and `killed` set, only while
\* the handle's process has not exited (status "exited" is an exit the
\* run-time has seen); otherwise the call does nothing and returns false.
\* The subprocess is the emitter's own child, so delivery is never refused.
kill(s, p) ==
  LET s1 == Log(s, Ev("kill", "", p, NoArg))
  IN  IF s.status[p] = "running"
      THEN Log([s1 EXCEPT !.killed[p] = TRUE, !.signals[p] = @ + 1],
               Ev("signal", "", p, NoArg))
      ELSE s1

\* cleanup() without the `killed` test
cleanupNoCheck(s, by) ==
  LET s1 == Log(s, Ev("cleanup", by, s.cmd, NoArg))
  IN  IF s.cmd # NoCmd THEN kill(s1, s.cmd) ELSE s1

\* cleanup() that never kills
cleanupNoKill(s, by) == Log(s, Ev("cleanup", by, s.cmd, NoArg))

\* cleanup(), index.ts:28-36; `by` names the caller
cleanup(s, by) ==
  LET s1 == Log(s, Ev("cleanup", by, s.cmd, NoArg))
  IN  IF s.cmd # NoCmd
      THEN IF s.killed[s.cmd] THEN s1 ELSE kill(s1, s.cmd)
      ELSE s1

\* spawn(...) and the handlers attached to the new handle, index.ts:75-89
NextProc(s) == Cardinality({p \in Procs : s.status[p] # "none"}) + 1

spawn(s, ok) ==
  LET p == NextProc(s)
  IN  Log([s EXCEPT !.cmd = p,
                    !.status[p] = IF ok THEN "running" ELSE "failed",
                    !.exitHooks = @ + 1],
          Ev("spawn", "", p, NoArg))

\* listen() without the `if (!this.#watcher)` test
listenAlwaysWatch(s, by, ok) ==
  LET s1 == cleanup(Log(s, Ev("listen", by, 0, NoArg)), "listen")
      s2 == Log([s1 EXCEPT !.watcher = @ + 1], Ev("watch", "", 0, NoArg))
  IN  spawn(s2, ok)

\* listen(), index.ts:38-90; `by` names the caller
listen(s, by, ok) ==
  LET s1 == cleanup(Log(s, Ev("listen", by, 0, NoArg)), "listen")
      s2 == IF s1.watcher = 0
            THEN Log([s1 EXCEPT !.watcher = @ + 1], Ev("watch", "", 0, NoArg))
            ELSE s1
  IN  spawn(s2, ok)

\* the callback with #lastSeen updated before the rules are evaluated
watchCallbackEarlyUpdate(s, event, filename, ok) ==
  IF event # "rename" THEN s
  ELSE IF filename # socketFile /\ filename # pidFile THEN s
  ELSE
    LET s0 == [s EXCEPT !.lastSeen = filename]
        s1 == IF s0.lastSeen = socketFile /\ filename = pidFile
              THEN cleanup(s0, "watch") ELSE s0
    IN  IF s1.lastSeen = pidFile /\ filename = socketFile
        THEN listen(s1, "watch", ok) ELSE s1

\* the callback without the test of the file name
watchCallbackAnyFile(s, event, filename, ok) ==
  IF event # "rename" THEN s
  ELSE
    LET s1 == IF s.lastSeen = socketFile /\ filename = pidFile
              THEN cleanup(s, "watch") ELSE s
        s2 == IF s1.lastSeen = pidFile /\ filename = socketFile
              THEN listen(s1, "watch", ok) ELSE s1
    IN  [s2 EXCEPT !.lastSeen = filename]

\* the fs.watch callback, index.ts:46-66
watchCallback(s, event, filename, ok) ==
  IF event # "rename" THEN s
  ELSE IF filename # socketFile /\ filename # pidFile THEN s
  ELSE
    LET s1 == IF s.lastSeen = socketFile /\ filename = pidFile
              THEN cleanup(s, "watch") ELSE s
        s2 == IF s1.lastSeen = pidFile /\ filename = socketFile
              THEN listen(s1, "watch", ok) ELSE s1
    IN  [s2 EXCEPT !.lastSeen = filename]


\* ------------------------------------------------------------------ JSON
\* JSON.parse on token text.  A document is one object: "{", then members
\* (an Action member, or a nested object), then "}", and nothing after it.
\* The value keeps the last top-level Action and the number of nested objects.
RECURSIVE ParseMembers(_, _, _, _)
ParseMembers(t, i, action, actor) ==
  IF i > Len(t) THEN [ok |-> FALSE, next |-> i, Action |-> action, Actor |-> actor]
  ELSE IF t[i] = "}" THEN [ok |-> TRUE, next |-> i + 1, Action |-> action, Actor |-> actor]
  ELSE IF t[i] = "{"
  THEN LET n == ParseMembers(t, i + 1, Unset, 0)
       IN  IF n.ok THEN ParseMembers(t, n.next, action, actor + 1)
           ELSE [ok |-> FALSE, next |-> n.next, Action |-> action, Actor |-> actor]
  ELSE IF t[i] \in ActionNames THEN ParseMembers(t, i + 1, t[i], actor)
  ELSE [ok |-> FALSE, next |-> i, Action |-> action, Actor |-> actor]

JSONParse(t) ==
  IF t = <<>> \/ t[1] # "{" THEN [ok |-> FALSE, value |-> NoArg]
  ELSE LET r == ParseMembers(t, 2, Unset, 0)
       IN  IF r.ok /\ r.next = Len(t) + 1
           THEN [ok |-> TRUE, value |-> [Action |-> r.Action, Actor |-> r.Actor]]
           ELSE [ok |-> FALSE, value |-> NoArg]

\* data.split(/\n/)
RECURSIVE Split(_)
Split(d) ==
  IF \A i \in 1..Len(d) : d[i] # "\n" THEN <<d>>
  ELSE LET i == CHOOSE j \in 1..Len(d) :
                  d[j] = "\n" /\ \A k \in 1..(j - 1) : d[k] # "\n"
       IN  <<SubSeq(d, 1, i - 1)>> \o Split(SubSeq(d, i + 1, Len(d)))

\* ---------------------------------------------------------- StreamDecoder
\* decode() that keeps only the latest piece in the buffer
decodeOverwrite(s, d) ==
  LET s1 == [s EXCEPT !.data = d]
      j == JSONParse(s1.data)
      s2 == Log(s1, Ev("parse", "", Len(s1.data), NoArg))
  IN  IF j.ok
      THEN LET s3 == [s2 EXCEPT !.data = <<>>, !.published = Append(@, j.value)]
               r == emit(s3, j.value.Action, j.value)
           IN  IF r.threw THEN Log(r.s, Ev("catch", "emit", 0, NoArg)) ELSE r.s
      ELSE Log(s2, Ev("catch", "parse", 0, NoArg))

\* decode() that reports a failed parse to the 'error' listeners
decodeReportFailure(s, d) ==
  LET s1 == [s EXCEPT !.data = @ \o d]
      j == JSONParse(s1.data)
      s2 == Log(s1, Ev("parse", "", Len(s1.data), NoArg))
  IN  IF j.ok
      THEN LET s3 == [s2 EXCEPT !.data = <<>>, !.published = Append(@, j.value)]
               r == emit(s3, j.value.Action, j.value)
           IN  IF r.threw THEN Log(r.s, Ev("catch", "emit", 0, NoArg)) ELSE r.s
      ELSE emit(Log(s2, Ev("catch", "parse", 0, NoArg)), ErrorType, [error |-> "parse"]).s

\* decode() that starts over with the latest piece when the buffer fails to
\* parse and the piece alone parses
decodeResync(s, d) ==
  LET s1 == [s EXCEPT !.data = IF ~JSONParse(@ \o d).ok /\ JSONParse(d).ok
                                THEN d ELSE @ \o d]
      j == JSONParse(s1.data)
      s2 == Log(s1, Ev("parse", "", Len(s1.data), NoArg))
  IN  IF j.ok
      THEN LET s3 == [s2 EXCEPT !.data = <<>>, !.published = Append(@, j.value)]
               r == emit(s3, j.value.Action, j.value)
           IN  IF r.threw THEN Log(r.s, Ev("catch", "emit", 0, NoArg)) ELSE r.s
      ELSE Log(s2, Ev("catch", "parse", 0, NoArg))

\* decode() that empties the buffer after the publish instead of before it
decodeClearLate(s, d) ==
  LET s1 == [s EXCEPT !.data = @ \o d]
      j == JSONParse(s1.data)
      s2 == Log(s1, Ev("parse", "", Len(s1.data), NoArg))
  IN  IF j.ok
      THEN LET s3 == [s2 EXCEPT !.published = Append(@, j.value)]
               r == emit(s3, j.value.Action, j.value)
           IN  IF r.threw THEN Log(r.s, Ev("catch", "emit", 0, NoArg))
               ELSE [r.s EXCEPT !.data = <<>>]
      ELSE Log(s2, Ev("catch", "parse", 0, NoArg))

\* decode() without the try/catch around the publish: a raising listener's
\* exception leaves the stdout callback uncaught and ends the host process
decodeNoCatch(s, d) ==
  LET s1 == [s EXCEPT !.data = @ \o d]
      j == JSONParse(s1.data)
      s2 == Log(s1, Ev("parse", "", Len(s1.data), NoArg))
  IN  IF j.ok
      THEN LET s3 == [s2 EXCEPT !.data = <<>>, !.published = Append(@, j.value)]
               r == emit(s3, j.value.Action, j.value)
           IN  IF r.threw THEN [r.s EXCEPT !.host = "exited"] ELSE r.s
      ELSE Log(s2, Ev("catch", "parse", 0, NoArg))

\* the else branch of tryParseStdoutData, index.ts:105-115
decode(s, d) ==
  LET s1 == [s EXCEPT !.data = @ \o d]
      j == JSONParse(s1.data)
      s2 == Log(s1, Ev("parse", "", Len(s1.data), NoArg))
  IN  IF j.ok
      THEN LET s3 == [s2 EXCEPT !.data = <<>>, !.published = Append(@, j.value)]
               r == emit(s3, j.value.Action, j.value)
           IN  IF r.threw THEN Log(r.s, Ev("catch", "emit", 0, NoArg)) ELSE r.s
      ELSE Log(s2, Ev("catch", "parse", 0, NoArg))

\* tryParseStdoutData(data), index.ts:92-117
RECURSIVE tryParseStdoutData(_, _)
RECURSIVE forEach(_, _, _)
forEach(s, strings, i) ==
  IF i > Len(strings) THEN s
  ELSE forEach(tryParseStdoutData(s, strings[i]), strings, i + 1)

\* tryParseStdoutData() that feeds only the first piece of a split chunk
tryParseFirstPiece(s, d) ==
  IF d = <<>> THEN s
  ELSE LET strings == Split(d)
       IN  IF Len(strings) > 1 THEN tryParseStdoutData(s, strings[1]) ELSE decode(s, d)

tryParseStdoutData(s, d) ==
  IF d = <<>> THEN s
  ELSE LET strings == Split(d)
       IN  IF Len(strings) > 1 THEN forEach(s, strings, 1) ELSE decode(s, d)

\* exit hooks that each kill the handle that was new when they were registered
RECURSIVE runExitHooksStale(_, _)
runExitHooksStale(s, n) ==
  IF n = 0 THEN [s EXCEPT !.host = "exited"]
  ELSE runExitHooksStale(kill(Log(s, Ev("hook", "", n, NoArg)), n), n - 1)

\* the process 'exit' hooks, index.ts:78-80: every registered hook kills #cmd
RECURSIVE runExitHooks(_, _)
runExitHooks(s, n) ==
  IF n = 0 THEN [s EXCEPT !.host = "exited"]
  ELSE runExitHooks(kill(Log(s, Ev("hook", "", n, NoArg)), s.cmd), n - 1)

\* the 'error' handler that starts the subprocess again after publishing
cmdErrorRetry(s, p) ==
  LET r == emit([s EXCEPT !.status[p] = "errored"], ErrorType, SpawnError)
  IN  IF r.threw THEN runExitHooks(r.s, r.s.exitHooks)
      ELSE IF NextProc(r.s) <= MaxSpawn THEN listen(r.s, "error", TRUE)
      ELSE r.s

\* the handle's 'error' handler, index.ts:84-87; an exception leaving the
\* handler is uncaught and ends the host process
cmdError(s, p) ==
  LET r == emit([s EXCEPT !.status[p] = "errored"], ErrorType, SpawnError)
  IN  IF r.threw THEN runExitHooks(r.s, r.s.exitHooks) ELSE r.s

\* ----------------------------------------------------------------- actions
Running == host = "running"
Spawned(p) == status[p] # "none"
NumListeners == Len(events[Wildcard]) + Len(events[Fallback])
                + Len(events["start"]) + Len(events[ErrorType])
RECURSIVE SumLen(_, _)
SumLen(f, n) == IF n = 0 THEN 0 ELSE Len(f[n]) + SumLen(f, n - 1)
NumSent == SumLen(sent, MaxSpawn)
UserPayload == [user |-> TRUE]

\* emitter.on(pattern, listener)
On(pat) ==
  /\ Running
  /\ NumListeners < MaxListeners
  /\ Becomes([State EXCEPT !.events[pat] = Append(@, NumListeners + 1)])

\* emitter.on(pattern, listener) with a listener that raises
OnRaising(pat) ==
  /\ Running
  /\ NumListeners < MaxListeners
  /\ Becomes([State EXCEPT !.events[pat] = Append(@, NumListeners + 1),
                           !.throwers = @ \cup {NumListeners + 1}])

\* emitter.listen()
Listen(ok) ==
  /\ Running
  /\ NextProc(State) <= MaxSpawn
  /\ Becomes(listen(State, "user", ok))

\* a notification of the directory watcher
Notify(event, filename, ok) ==
  /\ Running
  /\ watcher > 0
  /\ (event = "rename" /\ lastSeen = pidFile /\ filename = socketFile)
       => NextProc(State) <= MaxSpawn
  /\ Becomes(watchCallback(
       Log(State, Ev("notify", filename, 0, [event |-> event, lastSeen |-> lastSeen])),
       event, filename, ok))

\* the subprocess prints one record and a newline
Write(p, r) ==
  /\ Running
  /\ status[p] = "running"
  /\ NumSent < MaxRecords
  /\ Becomes([State EXCEPT !.pending[p] = @ \o r \o <<"\n">>,
                           !.sent[p] = Append(@, r)])

\* the subprocess prints a line that is no JSON document
WriteMalformed(p) ==
  /\ Running
  /\ status[p] = "running"
  /\ NumSent < MaxRecords
  /\ Becomes([State EXCEPT !.pending[p] = @ \o Malformed \o <<"\n">>,
                           !.sent[p] = Append(@, Malformed)])

\* a 'data' event of the subprocess's stdout carrying the next k tokens
Stdout(p, k) ==
  /\ Running
  /\ Spawned(p)
  /\ k \in 1..Len(pending[p])
  /\ Becomes(tryParseStdoutData(
       Log([State EXCEPT !.pending[p] = SubSeq(@, k + 1, Len(@))],
           Ev("data", "", p, [chunk |-> SubSeq(pending[p], 1, k), buf |-> data])),
       SubSeq(pending[p], 1, k)))

\* the subprocess exits, on a signal or on its own
ProcExit(p) ==
  /\ Running
  /\ status[p] = "running"
  /\ Becomes([State EXCEPT !.status[p] = "exited"])

\* the 'error' event of a subprocess that failed to start
CmdError(p) ==
  /\ Running
  /\ status[p] = "failed"
  /\ Becomes(cmdError(Log(State, Ev("error", "", p, SpawnError)), p))

\* the host process exits
HostExit ==
  /\ Running
  /\ Becomes(runExitHooks(State, exitHooks))

\* a direct call of the public emit(type, payload)
UserEmit(type) ==
  /\ Running
  /\ Becomes(emit(State, type, UserPayload).s)

Next ==
  \/ \E pat \in Patterns : On(pat)
  \/ \E pat \in Patterns : OnRaising(pat)
  \/ \E p \in Procs : WriteMalformed(p)
  \/ \E ok \in BOOLEAN : Listen(ok)
  \/ \E e \in Events, f \in Filenames, ok \in BOOLEAN : Notify(e, f, ok)
  \/ \E p \in Procs, r \in Records : Write(p, r)
  \/ \E p \in Procs : \E k \in 1..Len(pending[p]) : Stdout(p, k)
  \/ \E p \in Procs : ProcExit(p)
  \/ \E p \in Procs : CmdError(p)
  \/ HostExit
  \/ \E type \in ActionNames \cup Patterns : UserEmit(type)

Spec == Init /\ [][Next]_vars


\* The supervisor and the watcher alone: no subprocess output.
NextSupervisor ==
  \/ \E pat \in Patterns : On(pat)
  \/ \E ok \in BOOLEAN : Listen(ok)
  \/ \E e \in Events, f \in Filenames, ok \in BOOLEAN : Notify(e, f, ok)
  \/ \E p \in Procs : ProcExit(p)
  \/ \E p \in Procs : CmdError(p)
  \/ HostExit

SpecSupervisor == Init /\ [][NextSupervisor]_vars

\* The decoder fed by the first subprocess alone.
NextDecoder ==
  \/ \E pat \in Patterns : On(pat)
  \/ cmd = NoCmd /\ Listen(TRUE)
  \/ \E r \in Records : Write(1, r)
  \/ \E k \in 1..Len(pending[1]) : Stdout(1, k)

SpecDecoder == Init /\ [][NextDecoder]_vars

\* The event bus: registrations and publishes.
NextBus ==
  \/ \E pat \in Patterns : On(pat)
  \/ cmd = NoCmd /\ Listen(FALSE)
  \/ \E p \in Procs : CmdError(p)
  \/ \E type \in ActionNames \cup Patterns : UserEmit(type)

SpecBus == Init /\ [][NextBus]_vars

\* The decoder fed by a subprocess that also prints lines that are no JSON.
NextMalformed ==
  \/ \E pat \in Patterns : On(pat)
  \/ cmd = NoCmd /\ Listen(TRUE)
  \/ \E r \in Records : Write(1, r)
  \/ WriteMalformed(1)
  \/ \E k \in 1..Len(pending[1]) : Stdout(1, k)

SpecMalformed == Init /\ [][NextMalformed]_vars

\* The decoder publishing to listeners some of which raise.
NextRaising ==
  \/ On(Wildcard)
  \/ \E pat \in {Wildcard, Fallback, "start"} : OnRaising(pat)
  \/ cmd = NoCmd /\ Listen(TRUE)
  \/ \E r \in Records : Write(1, r)
  \/ \E k \in 1..Len(pending[1]) : Stdout(1, k)

SpecRaising == Init /\ [][NextRaising]_vars

\* Restarts while output is decoded: every subprocess writes and delivers,
\* the superseded ones included (their stdout handlers stay attached).
NextRestart ==
  \/ Listen(TRUE)
  \/ \E f \in {socketFile, pidFile} : Notify("rename", f, TRUE)
  \/ \E p \in Procs, r \in Records : Write(p, r)
  \/ \E p \in Procs : \E k \in 1..Len(pending[p]) : Stdout(p, k)

SpecRestart == Init /\ [][NextRestart]_vars

\* The emitter with its whole environment but the application's own publishes
\* and the exit of the host: the tracked subprocess prints a line once the
\* previous one was read.
NextEmitter ==
  \/ On(ErrorType)
  \/ \E ok \in BOOLEAN : Listen(ok)
  \/ \E e \in Events, f \in Filenames, ok \in BOOLEAN : Notify(e, f, ok)
  \/ /\ cmd # NoCmd
     /\ pending[cmd] = <<>>
     /\ \E a \in {ErrorType, "start"} : Write(cmd, Record(a))
  \/ cmd # NoCmd /\ \E k \in 1..Len(pending[cmd]) : Stdout(cmd, k)
  \/ \E p \in Procs : CmdError(p)

SpecEmitter == Init /\ [][NextEmitter]_vars

\* ------------------------------------------------------------------ claims
Started(p) == status[p] \in {"running", "exited"}
HasIn(tr, op, id) == \E i \in DOMAIN tr : tr[i].op = op /\ tr[i].id = id
IndexIn(tr, op, id) == CHOOSE i \in DOMAIN tr : tr[i].op = op /\ tr[i].id = id
Has(op, id) == HasIn(trace, op, id)

\* C1 as stated: at most one subprocess that was started has never been sent a
\* termination signal by the emitter.
C1_AtMostOneUnsignalled ==
  Cardinality({p \in Procs : Started(p) /\ signals[p] = 0}) <= 1

\* C1 (amended): at most one subprocess is running without having been sent a
\* termination signal, and it is the tracked one; and every listen() sends the
\* signal to the subprocess tracked before it, when that one is not yet killed
\* and still running, before it spawns the new one.
C1_OneLive ==
  \A p \in Procs : (status[p] = "running" /\ signals[p] = 0) => p = cmd

C1_Handoff ==
  \A q \in Procs :
    HasIn(trace', "spawn", q) =>
      /\ cmd' = q
      /\ (cmd # NoCmd /\ ~killed[cmd] /\ status[cmd] = "running") =>
           /\ HasIn(trace', "signal", cmd)
           /\ IndexIn(trace', "signal", cmd) < IndexIn(trace', "spawn", q)
           /\ signals'[cmd] = signals[cmd] + 1

\* C1 (amended), both parts: the invariant in every state and the handoff in
\* every step.
C1_SingleOwner == []C1_OneLive /\ [][C1_Handoff]_vars

\* C1 witness: the second listen() has signalled the first subprocess, which was
\* still running, and the second subprocess is the only unsignalled one.
C1_Witness ==
  /\ Has("spawn", 2) /\ Has("signal", 1)
  /\ status[1] = "running" /\ signals[1] = 1
  /\ cmd = 2 /\ status[2] = "running" /\ signals[2] = 0

Opped(tr, ops) == SelectSeq(tr, LAMBDA e : e.op \in ops)
Emits == Opped(trace, {"emit"})
Calls == Opped(trace, {"call"})
ListenersOf(pat) == IF pat \in DOMAIN events THEN events[pat] ELSE <<>>
CallsTo(pat, arg) ==
  [i \in 1..Len(ListenersOf(pat)) |-> Ev("call", pat, ListenersOf(pat)[i], arg)]
Called(pat, l, arg) ==
  \E i \in DOMAIN Calls : Calls[i] = Ev("call", pat, l, arg)

\* C2: a rename notification naming the socket file or the pid file f invokes
\* stop once exactly when lastSeen was the socket file and f is the pid file,
\* invokes listen() once exactly when lastSeen was the pid file and f is the
\* socket file, invokes neither otherwise, and leaves lastSeen = f.
C2_SocketStateMachine ==
  (/\ trace # <<>>
   /\ trace[1].op = "notify"
   /\ trace[1].arg.event = "rename"
   /\ trace[1].pat \in {socketFile, pidFile}) =>
    LET f == trace[1].pat
        prev == trace[1].arg.lastSeen
        stops == Len(SelectSeq(trace, LAMBDA e : e.op = "cleanup" /\ e.pat = "watch"))
        starts == Len(Opped(trace, {"listen"}))
    IN  /\ stops = (IF prev = socketFile /\ f = pidFile THEN 1 ELSE 0)
        /\ starts = (IF prev = pidFile /\ f = socketFile THEN 1 ELSE 0)
        /\ Len(Opped(trace, {"spawn"})) = starts
        /\ lastSeen = f

\* C2 witness: the socket file was announced after the pid file and the
\* callback restarted the subprocess.
C2_Witness ==
  /\ trace # <<>>
  /\ trace[1].op = "notify"
  /\ trace[1].arg.lastSeen = pidFile
  /\ \E i \in DOMAIN trace : trace[i].op = "listen" /\ trace[i].pat = "watch"
  /\ lastSeen = socketFile

\* C3 as stated: a publish of type T with payload P invokes every listener
\* registered under T with P, and the fallback listeners if and only if no
\* listener is registered under T.
C3_LayeredDispatch ==
  Len(Emits) = 1 =>
    LET T == Emits[1].pat
        P == Emits[1].arg
    IN  /\ \A i \in DOMAIN ListenersOf(T) : Called(T, ListenersOf(T)[i], P)
        /\ T # Fallback =>
             \A i \in DOMAIN events[Fallback] :
               Called(Fallback, events[Fallback][i], P) <=> ListenersOf(T) = <<>>

\* C5: within one publish the wildcard listeners are called first, whatever the
\* type, in registration order, and every later call goes to the listeners of
\* one pattern, the type or the fallback, in registration order.
C5_DispatchOrder ==
  Len(Emits) = 1 =>
    LET T == Emits[1].pat
        P == Emits[1].arg
        n == Len(events[Wildcard])
    IN  /\ Len(Calls) >= n
        /\ SubSeq(Calls, 1, n) = CallsTo(Wildcard, P)
        /\ \/ Len(Calls) = n
           \/ \E pat \in {T, Fallback} : SubSeq(Calls, n + 1, Len(Calls)) = CallsTo(pat, P)

\* C5 witness: a publish reached two listeners of one pattern, or a wildcard
\* listener and then a listener of another pattern.
C5_Witness ==
  /\ Len(Emits) = 1
  /\ Len(Calls) = 2
  /\ Calls[1].id = 1 /\ Calls[2].id = 2
  /\ Calls[1].pat = Wildcard
  /\ Calls[2].pat = "start"

\* C6 as stated: a subprocess failure published with no 'error' listener
\* reaches every wildcard and every fallback listener, and the publish returns
\* without raising and without ending the host process.
C6_ErrorPublishReturns ==
  (trace # <<>> /\ trace[1].op = "error" /\ events[ErrorType] = <<>>) =>
    /\ \A i \in DOMAIN events[Wildcard] : Called(Wildcard, events[Wildcard][i], SpawnError)
    /\ \A i \in DOMAIN events[Fallback] : Called(Fallback, events[Fallback][i], SpawnError)
    /\ Opped(trace, {"throw"}) = <<>>
    /\ host = "running"

\* What JSON.parse yields for the record of an action.
Value(a) == [Action |-> a, Actor |-> IF a = "die" THEN 1 ELSE 0]
IsPrefix(a, b) == Len(a) <= Len(b) /\ SubSeq(b, 1, Len(a)) = a
IsData == trace # <<>> /\ trace[1].op = "data"
Chunk == trace[1].arg.chunk
Before == trace[1].arg.buf
Count(l, arg) == Len(SelectSeq(Calls, LAMBDA e : e.id = l /\ e.arg = arg))

\* C4 as stated: a chunk that is one whole record, whatever its Action,
\* decoded from an empty buffer is delivered exactly once to every wildcard
\* listener and exactly once to every listener of its Action, and the buffer
\* is empty afterwards.
C4_ExactlyOnce ==
  (/\ IsData
   /\ Before = <<>>
   /\ \E a \in ActionNames : Chunk \in {Record(a), Record(a) \o <<"\n">>}) =>
    LET a == Chunk[2]
    IN  /\ \A i \in DOMAIN events[Wildcard] : Count(events[Wildcard][i], Value(a)) = 1
        /\ \A i \in DOMAIN ListenersOf(a) : Count(ListenersOf(a)[i], Value(a)) = 1
        /\ data = <<>>

\* C4 (amended): such a record is delivered exactly once to every wildcard
\* listener and exactly once to every listener of its Action when the Action
\* is not '*'; a record whose Action is '*' is delivered exactly twice to every
\* wildcard listener; the buffer is empty afterwards.
C4_Delivery ==
  (/\ IsData
   /\ Before = <<>>
   /\ \E a \in ActionNames : Chunk \in {Record(a), Record(a) \o <<"\n">>}) =>
    LET a == Chunk[2]
    IN  /\ \A i \in DOMAIN events[Wildcard] :
             Count(events[Wildcard][i], Value(a)) = (IF a = Wildcard THEN 2 ELSE 1)
        /\ a # Wildcard =>
             \A i \in DOMAIN ListenersOf(a) : Count(ListenersOf(a)[i], Value(a)) = 1
        /\ data = <<>>

\* C4 witness: a whole `start` record was decoded from an empty buffer and
\* reached one wildcard listener and one `start` listener.
C4_Witness ==
  /\ IsData
  /\ Before = <<>>
  /\ Chunk = Record("start") \o <<"\n">>
  /\ Len(events[Wildcard]) = 1
  /\ Len(events["start"]) = 1
  /\ Len(Calls) = 2
  /\ data = <<>>

\* C7: fed to a buffer that holds the earlier chunks of a record (or nothing),
\* a chunk that leaves the record incomplete causes no publish and no delivery
\* and the buffer holds the chunks so far; the chunk that completes the record
\* causes exactly one publish, of the whole object, and empties the buffer.
C7_Fragment ==
  IsData =>
    \A r \in Records :
      /\ (IsPrefix(Before \o Chunk, r) /\ Before \o Chunk # r) =>
           /\ data = Before \o Chunk
           /\ Emits = <<>>
           /\ Calls = <<>>
      /\ (Before # <<>> /\ Before \o Chunk \in {r, r \o <<"\n">>}) =>
           /\ Emits = <<Ev("emit", r[2], 0, Value(r[2]))>>
           /\ published # <<>>
           /\ published[Len(published)] = Value(r[2])
           /\ data = <<>>

\* C7 witness: the third chunk of a record completed it and it was published.
C7_Witness ==
  /\ IsData
  /\ Len(Before) >= 2
  /\ Before \o Chunk \in Records
  /\ Len(Emits) = 1
  /\ data = <<>>

\* The trace a whole record makes when it is decoded and published
\* completely: one parse, one publish, the wildcard listeners, then the
\* listeners of its Action or, when it has none, the fallback listeners.
Cycle(r) ==
  <<Ev("parse", "", Len(r), NoArg), Ev("emit", r[2], 0, Value(r[2]))>>
  \o CallsTo(Wildcard, Value(r[2]))
  \o (IF ListenersOf(r[2]) # <<>> THEN CallsTo(r[2], Value(r[2]))
      ELSE CallsTo(Fallback, Value(r[2])))

RECURSIVE Cycles(_)
Cycles(rs) == IF rs = <<>> THEN <<>> ELSE Cycle(Head(rs)) \o Cycles(Tail(rs))

Pieces(c) == SelectSeq(Split(c), LAMBDA x : x # <<>>)

\* C8 as stated: a chunk of n >= 2 newline-joined whole records, received with
\* an empty buffer, causes exactly n decode cycles in stream order, each with
\* one publish, one wildcard delivery and one typed or fallback delivery, and
\* the buffer is empty at the end.
C8_MultiRecordChunk ==
  (/\ IsData
   /\ Before = <<>>
   /\ Len(Pieces(Chunk)) >= 2
   /\ \A i \in DOMAIN Pieces(Chunk) : Pieces(Chunk)[i] \in Records) =>
    /\ Opped(trace, {"parse", "emit", "call"}) = Cycles(Pieces(Chunk))
    /\ data = <<>>

RECURSIVE Values(_)
Values(rs) == IF rs = <<>> THEN <<>> ELSE <<Value(Head(rs)[2])>> \o Values(Tail(rs))

\* C9: whatever the chunks were, the published records are at every moment a
\* prefix of the records written, and once the whole stream has been read they
\* are exactly the records written, in order, and the buffer is empty.
C9_ChunkingIndependence ==
  /\ IsPrefix(published, Values(sent[1]))
  /\ pending[1] = <<>> => (published = Values(sent[1]) /\ data = <<>>)

\* C9 witness: two records were read; the last chunk began inside the first
\* record and carried the rest of the stream.
C9_Witness ==
  /\ IsData
  /\ Before # <<>>
  /\ Len(Split(Chunk)) >= 3
  /\ pending[1] = <<>>
  /\ Len(published) >= 2

\* C10: a stop sends exactly one signal, to the tracked subprocess, when that
\* one is neither killed already nor exited, and otherwise sends nothing and
\* changes no handle; it publishes nothing and raises nothing, and a stop from
\* the watcher changes nothing else either.
C10_Stop ==
  HasIn(trace', "cleanup", cmd) =>
    LET live == cmd # NoCmd /\ ~killed[cmd] /\ status[cmd] = "running"
    IN  /\ live =>
             /\ Opped(trace', {"signal"}) = <<Ev("signal", "", cmd, NoArg)>>
             /\ signals' = [signals EXCEPT ![cmd] = @ + 1]
             /\ killed' = [killed EXCEPT ![cmd] = TRUE]
        /\ ~live =>
             /\ Opped(trace', {"signal"}) = <<>>
             /\ signals' = signals
             /\ killed' = killed
        /\ Opped(trace', {"emit", "call", "throw"}) = <<>>
        /\ host' = host
        /\ Opped(trace', {"listen"}) = <<>> =>
             UNCHANGED <<cmd, watcher, data, events, status, pending, sent,
                         published, exitHooks>>

\* C10: every step that runs cleanup() is such a stop.
C10_StopIdempotent == [][C10_Stop]_vars

\* C10 witness: the watcher stopped a tracked subprocess that had exited on
\* its own, and nothing was sent.
C10_Witness ==
  /\ trace # <<>>
  /\ trace[1].op = "notify"
  /\ cmd # NoCmd
  /\ HasIn(trace, "cleanup", cmd)
  /\ status[cmd] = "exited"
  /\ ~killed[cmd]
  /\ signals[cmd] = 0

\* C11: a subprocess-error callback publishes exactly one 'error' event, which
\* carries the failure, and it starts no subprocess and calls no listen(); and
\* in every step the number of subprocesses spawned is the number of listen()
\* invocations of the step, direct or by the watcher, so that over a run the
\* two numbers are equal.
C11_Step ==
  LET spawns == Len(Opped(trace', {"spawn"}))
      listens == Len(Opped(trace', {"listen"}))
  IN  /\ spawns = listens
      /\ Cardinality({p \in Procs : status'[p] # "none"})
           = Cardinality({p \in Procs : status[p] # "none"}) + listens
      /\ (trace' # <<>> /\ trace'[1].op = "error") =>
           /\ Opped(trace', {"emit"}) = <<Ev("emit", ErrorType, 0, SpawnError)>>
           /\ listens = 0
           /\ cmd' = cmd

C11_NoRetry == [][C11_Step]_vars

\* C11 witness: the failure of the second subprocess, started by the watcher,
\* was published to an 'error' listener, and the emitter still tracks the
\* subprocess that failed.
C11_Witness ==
  /\ trace # <<>> /\ trace[1].op = "error" /\ trace[1].id = 2
  /\ Len(Emits) = 1 /\ Len(Calls) >= 1
  /\ host = "running"
  /\ cmd = 2 /\ status[2] = "errored"

\* The callback of the current step: "listen" (a direct listen()), "notify",
\* "data", "error", "hook" or "emit" (a direct emit()).
Callback == IF trace = <<>> THEN "none" ELSE trace[1].op
\* No failed parse of the callback is followed by a publish or a delivery
\* before the next parse.
FailedParsesSilent ==
  \A i \in DOMAIN trace :
    (trace[i].op = "catch" /\ trace[i].pat = "parse") =>
      /\ i > 1 /\ trace[i - 1].op = "parse"
      /\ i < Len(trace) => trace[i + 1].op = "parse"

\* C12 as stated: a publish under 'error' happens only inside a
\* subprocess-error callback; a decode failure, a stop and a socket-removed or
\* socket-created transition cause no publish and no delivery.
C12_OnlySubprocessFailures ==
  /\ \A i \in DOMAIN Emits : Emits[i].pat = ErrorType => Callback = "error"
  /\ Callback \in {"listen", "notify"} => (Emits = <<>> /\ Calls = <<>>)
  /\ FailedParsesSilent

\* C12 (amended): the emitter publishes under 'error' only a subprocess's
\* failure, inside that subprocess's error callback, or a decoded record whose
\* Action is "error", inside a stdout-chunk callback; a decode failure, a stop
\* and a socket-removed or socket-created transition cause no publish and no
\* delivery.
C12_ErrorSources ==
  /\ \A i \in DOMAIN Emits :
       Emits[i].pat = ErrorType =>
         \/ Callback = "error" /\ Emits[i].arg = SpawnError
         \/ Callback = "data" /\ Emits[i].arg = Value(ErrorType)
  /\ \A i \in DOMAIN Emits :
       Callback = "data" => Emits[i].arg.Action = Emits[i].pat
  /\ Callback \in {"listen", "notify"} => (Emits = <<>> /\ Calls = <<>>)
  /\ FailedParsesSilent

\* C12 witness: a stdout chunk completed a record whose Action is "error",
\* after an earlier chunk had failed to parse, and the record was delivered to
\* a listener registered under 'error'.
C12_Witness ==
  /\ IsData
  /\ Before # <<>>
  /\ \E i \in DOMAIN Calls :
       Calls[i].pat = ErrorType /\ Calls[i].arg = Value(ErrorType)

\* Text that no continuation turns into a JSON document: it does not start
\* with "{", or the parser stops at a token inside it, or tokens follow the
\* document it starts with.
Doomed(t) ==
  /\ t # <<>>
  /\ \/ t[1] # "{"
     \/ ParseMembers(t, 2, Unset, 0).next <= Len(t)

\* C13: once the buffer holds text that no continuation can turn into a JSON
\* document, every later step keeps such text in the buffer, only appends to
\* it, publishes no record, delivers nothing and raises nothing.
C13_Step ==
  Doomed(data) =>
    /\ Doomed(data')
    /\ IsPrefix(data, data')
    /\ published' = published
    /\ Opped(trace', {"emit", "call", "throw"}) = <<>>
    /\ host' = "running"

C13_Stuck == [][C13_Step]_vars

\* C13 witness: the buffer held such text when a chunk with a complete
\* well-formed record and its newline arrived; the record was appended to the
\* buffer and nothing was published.
C13_Witness ==
  /\ IsData
  /\ Doomed(Before)
  /\ \E r \in Records : Chunk = r \o <<"\n">> /\ data = Before \o r
  /\ published = <<>>

\* C14 as stated: when the host process has exited after a listen(), the
\* subprocess tracked at the exit, if it was started, was sent the termination
\* signal by an exit hook.
C14_TrackedSignalled ==
  (host = "exited" /\ cmd # NoCmd /\ Started(cmd)) => Has("signal", cmd)

\* C14 (amended): when the host process exits, every registered exit hook
\* runs and calls kill() on the subprocess tracked at the exit and on no other,
\* however many restarts happened; the tracked subprocess is sent one signal
\* by each hook if it is still running and none if it has exited or never
\* started; no hook runs while no handle is set.
C14_Step ==
  (host = "running" /\ host' = "exited") =>
    LET hooks == Opped(trace', {"hook"})
        kills == Opped(trace', {"kill"})
    IN  /\ Len(hooks) = exitHooks
        /\ Len(kills) = Len(hooks)
        /\ cmd' = cmd
        /\ \A i \in DOMAIN kills : kills[i].id = cmd
        /\ cmd = NoCmd => hooks = <<>>
        /\ cmd # NoCmd =>
             /\ Len(hooks) >= 1
             /\ signals'[cmd] = signals[cmd]
                  + (IF status[cmd] = "running" THEN Len(hooks) ELSE 0)
        /\ \A p \in Procs : p # cmd => signals'[p] = signals[p]

C14_ExitHooks == [][C14_Step]_vars

\* C14 witness: the host exited after a restart; both hooks signalled the
\* second subprocess, which was running, and none the first.
C14_Witness ==
  /\ host = "exited"
  /\ Has("hook", 1) /\ Has("hook", 2)
  /\ cmd = 2 /\ status[2] = "running" /\ signals[2] = 2
  /\ status[1] = "running" /\ signals[1] = 1

\* C15 as stated: after any number n >= 1 of listen() invocations, direct or
\* by the watcher, exactly one exit hook is registered.
C15_OneExitHook ==
  cmd # NoCmd => exitHooks = 1

\* C16: before the first listen() there is no watcher and no subprocess; from
\* the first listen() on there is exactly one watcher; and a watcher is created
\* by the first listen() only, never by a later one, direct or invoked from
\* the watcher callback.
C16_WatcherOnce ==
  /\ cmd = NoCmd => (watcher = 0 /\ \A p \in Procs : status[p] = "none")
  /\ cmd # NoCmd => watcher = 1
  /\ Has("watch", 0) <=> (Callback = "listen" /\ cmd = 1)

\* C16 witness: the watcher callback restarted the subprocess, and there is
\* still one watcher.
C16_Witness ==
  /\ Callback = "notify"
  /\ \E i \in DOMAIN trace : trace[i].op = "listen" /\ trace[i].pat = "watch"
  /\ cmd = 2
  /\ watcher = 1

\* C17: a notification that is not a rename, or that names a file other than
\* the socket file and the pid file, leaves lastSeen, the tracked subprocess
\* and the buffer unchanged and calls neither cleanup() nor listen(); and
\* every step that changes lastSeen is a rename notification naming one of the
\* two files, which sets lastSeen to that name.
C17_Step ==
  LET notified == trace' # <<>> /\ trace'[1].op = "notify"
      qualifies == /\ trace'[1].arg.event = "rename"
                   /\ trace'[1].pat \in {socketFile, pidFile}
  IN  /\ (notified /\ ~qualifies) =>
           /\ lastSeen' = lastSeen /\ cmd' = cmd /\ data' = data
           /\ status' = status /\ signals' = signals /\ killed' = killed
           /\ Len(trace') = 1
      /\ lastSeen' # lastSeen =>
           (notified /\ qualifies /\ lastSeen' = trace'[1].pat)

C17_Frame == [][C17_Step]_vars

\* C17 witness: a rename of another file was announced while a subprocess was
\* tracked, the buffer held a fragment and lastSeen was the socket file.
C17_Witness ==
  /\ Callback = "notify"
  /\ trace[1].arg.event = "rename" /\ trace[1].pat = "other.pid"
  /\ Len(trace) = 1
  /\ cmd # NoCmd /\ data # <<>> /\ lastSeen = socketFile

\* C18: between callbacks the buffer is empty or holds text that does not
\* parse as a JSON document; a chunk of one piece whose parse succeeds leaves
\* the buffer empty, whatever the publish of the record does, and publishes
\* the record once; one whose parse fails publishes and delivers nothing and
\* leaves the buffer equal to its previous content followed by the piece; and
\* no failed parse of any chunk is followed by a publish.
C18_BufferInvariant ==
  /\ data = <<>> \/ ~JSONParse(data).ok
  /\ FailedParsesSilent
  /\ (IsData /\ Len(Split(Chunk)) = 1) =>
       LET j == JSONParse(Before \o Chunk)
       IN  IF j.ok
           THEN /\ data = <<>>
                /\ Emits = <<Ev("emit", j.value.Action, 0, j.value)>>
                /\ published # <<>> /\ published[Len(published)] = j.value
           ELSE /\ data = Before \o Chunk
                /\ Emits = <<>> /\ Calls = <<>>

\* C18 witness: the chunk completed a record that had arrived in pieces; its
\* publish raised inside emit, and the buffer is empty all the same.
C18_Witness ==
  /\ IsData /\ Len(Split(Chunk)) = 1
  /\ Before # <<>>
  /\ JSONParse(Before \o Chunk).ok
  /\ \E i \in DOMAIN trace : trace[i].op = "catch" /\ trace[i].pat = "emit"
  /\ data = <<>>

\* The number of tokens of subprocess p's output that were delivered, and the
\* number of its records whose whole text is among them.
RECURSIVE TextLen(_)
TextLen(rs) == IF rs = <<>> THEN 0 ELSE Len(Head(rs)) + 1 + TextLen(Tail(rs))
Delivered(p) == TextLen(sent[p]) - Len(pending[p])
RECURSIVE Whole(_, _)
Whole(rs, n) ==
  IF rs = <<>> \/ Len(Head(rs)) > n THEN 0
  ELSE 1 + Whole(Tail(rs), n - Len(Head(rs)) - 1)
Done(p) == Whole(sent[p], Delivered(p))
RECURSIVE DoneUpTo(_)
DoneUpTo(n) == IF n = 0 THEN 0 ELSE Done(n) + DoneUpTo(n - 1)
RECURSIVE IsSubseq(_, _)
IsSubseq(a, b) ==
  IF a = <<>> THEN TRUE
  ELSE IF b = <<>> THEN FALSE
  ELSE IF Head(a) = Head(b) THEN IsSubseq(Tail(a), Tail(b))
  ELSE IsSubseq(a, Tail(b))

\* C19 as stated: after a restart, every complete record that the newly
\* tracked subprocess has output and that was delivered is published, and
\* nothing is published more than once: the records published are as many as
\* the complete records delivered by all subprocesses, and those of the tracked
\* subprocess are among them in order.
C19_RestartClean ==
  (cmd # NoCmd /\ cmd > 1) =>
    /\ IsSubseq(Values(SubSeq(sent[cmd], 1, Done(cmd))), published)
    /\ Len(published) = DoneUpTo(MaxSpawn)

\* The entries of the callback that tell a listener's exception.
Raised == SelectSeq(trace, LAMBDA e : e.op = "throw" /\ e.id \in throwers)

\* C20: a listener that raises while a record is published does not end the
\* stdout-chunk callback: the exception is caught in it and the host keeps
\* running, the buffer was emptied by the parse, every successful parse of the
\* chunk, before and after the raise, is published, and over the whole stream
\* the records published are the records written.
C20_RaiseContained ==
  /\ host = "running"
  /\ IsData =>
       /\ Len(SelectSeq(trace, LAMBDA e : e.op = "catch" /\ e.pat = "emit"))
            = Len(Opped(trace, {"throw"}))
       /\ Len(Emits) + Len(SelectSeq(trace, LAMBDA e : e.op = "catch" /\ e.pat = "parse"))
            = Len(Opped(trace, {"parse"}))
       /\ (Before = <<>> /\ \A i \in DOMAIN Pieces(Chunk) : JSONParse(Pieces(Chunk)[i]).ok) =>
            /\ Len(Emits) = Len(Pieces(Chunk))
            /\ \A i \in DOMAIN Emits : Emits[i].arg = JSONParse(Pieces(Chunk)[i]).value
            /\ data = <<>>
  /\ IsPrefix(published, Values(sent[1]))
  /\ pending[1] = <<>> => (published = Values(sent[1]) /\ data = <<>>)

\* C20 witness: one chunk held two records; a listener raised on the first,
\* the second was published after that, and the buffer is empty.
C20_Witness ==
  /\ IsData
  /\ Len(Emits) = 2
  /\ Raised # <<>>
  /\ \E i, j \in DOMAIN trace :
       /\ i < j
       /\ trace[i].op = "throw" /\ trace[i].id \in throwers
       /\ trace[j].op = "emit"
  /\ data = <<>>
  /\ published = Values(sent[1])

====
